---- MODULE Spec2Model ----
(***************************************************************************)
(* Session-authenticated credential and password-reset lifecycle of the   *)
(* auth service (src/auth.py over src/models.py and src/database.py).     *)
(*                                                                         *)
(* The relational store is the pair of tables `users` and `codes`; the    *)
(* client-held signed cookie is `session`; each request handler runs on a *)
(* worker of `Procs`.  A handler that reads and then writes the store is  *)
(* two steps (its queries and checks, then its commit), so that other     *)
(* requests and the clock may interleave between them; a handler with a   *)
(* single query is one step.                                              *)
(*                                                                         *)
(* Time is in minutes.  `now` is the true (UTC) instant.  The application *)
(* writes naive datetime.utcnow() values into DateTime(timezone=True)     *)
(* columns: PostgreSQL reads a naive timestamp in the time zone of the    *)
(* database session, so the stored instant is the naive value minus that  *)
(* zone's UTC offset `tz`, which the deployment, not the code, fixes.     *)
(***************************************************************************)
EXTENDS Integers, Sequences, FiniteSets, TLC

\* ---------------------------------------------------------------- bounds
MaxTime == 12
TickMinutes == 3
MaxCodes == 2

\* ------------------------------------------------------- program constants
MinPasswordLen == 8
ExpiryMinutes == 5
LowCode == 100000
HighCode == 999999

\* ------------------------------------------------------------ input sets
Procs == {"w1", "w2"}
Emails == {"a@x.com", "b@x.com"}
Passwords == {"password1", "newpass1", "short67"}
Salts == {"s1"}
TzOffsets == {0 - 60, 0, 540}
CodeSamples == {LowCode, HighCode}

NoId == 0
NoTime == 0 - 1000000

\* users, codes: the tables of models.py (a row of codes also remembers, as
\* history, the instant issued_at at which its expiry was computed).
\* session: the cookie.  now, tz: the clock and the store's zone offset.
\* pc: what each worker is in the middle of.  resp: the last response.
\* nextCodeId: the next fresh code_id.  lastSet: history, the password each
\* email's account was last given by a request that answered success.
\* mail: the delivery tasks handed to BackgroundTasks, each with its state.
VARIABLES users, codes, session, now, tz, pc, resp, nextCodeId, lastSet, mail

vars == <<users, codes, session, now, tz, pc, resp, nextCodeId, lastSet, mail>>

\* ------------------------------------------------------------ conversions
\* str(n) for n >= 0: the decimal digits of n, most significant first.
RECURSIVE Str(_)
Str(n) == IF n < 10 THEN <<n>> ELSE Append(Str(n \div 10), n % 10)

\* A naive datetime written to a timestamptz column under session offset tz.
ToDb(naive) == naive - tz

\* bcrypt: the digest keeps its salt; verification re-hashes with that salt.
hashpw(password, salt) == [salt |-> salt, digest |-> <<salt, password>>]

checkpw(password, hashed) == hashpw(password, hashed.salt) = hashed

\* --------------------------------------------------------------- queries
EmptySession == [user_id |-> NoId, email |-> ""]

Idle == [op |-> "idle"]

UsersByEmail(email) == {u \in users : u.email = email}

UsersById(user_id) == {u \in users : u.user_id = user_id}

CodesByEmail(email) == {c \in codes : c.email = email}

\* Only the newest code of the email counting: a newer issuance voiding the older.
CodesNewestOnly(email, code) ==
    {c \in codes : /\ c.email = email /\ c.code = code
                   /\ \A d \in codes : d.email = email => d.created_at <= c.created_at}

\* The lookup by code alone, whatever the email.
CodesByCodeOnly(email, code) == {c \in codes : c.code = code}

CodesByEmailCode(email, code) == {c \in codes : c.email = email /\ c.code = code}

\* .order_by(created_at.desc()).first(): the rows a query may return first.
Latest(rows) == {c \in rows : \A d \in rows : d.created_at <= c.created_at}

NewUserId == Cardinality(users) + 1

\* ------------------------------------------------------------- responses
\* The last response sent: the handler, the email it was about (the code too,
\* for verify-code), the HTTP status and the detail message.
Response(op, email, status, detail) ==
    [op |-> op, email |-> email, code |-> <<>>, status |-> status, detail |-> detail]

Ok(op, email) == Response(op, email, 200, "success")

RegisterEmailTaken == [status |-> 400, detail |-> "email already exists"]

RegisterWeakPassword == [status |-> 400, detail |-> "password must be 8+ chars"]

LoginNoUser == [status |-> 401, detail |-> "email or password incorrect"]

\* A wrong password answered with a message of its own.
LoginBadPasswordTold == [status |-> 401, detail |-> "password incorrect"]

LoginBadPassword == [status |-> 401, detail |-> "email or password incorrect"]

Fail(op, email, err) == Response(op, email, err.status, err.detail)

\* An exception no handler catches: the transaction is rolled back (get_db
\* closes the session) and the framework answers 500.
Unhandled(op, email, exc) == Response(op, email, 500, exc)

Init ==
    /\ users = {}
    /\ codes = {}
    /\ session = EmptySession
    /\ now = 0
    /\ tz \in TzOffsets
    /\ pc = [p \in Procs |-> Idle]
    /\ resp = Response("none", "", 0, "")
    /\ nextCodeId = 1
    /\ lastSet = [e \in Emails |-> ""]
    /\ mail = {}

\* ------------------------------------------------------------------ clock
Tick ==
    /\ now + TickMinutes <= MaxTime
    /\ now' = now + TickMinutes
    /\ UNCHANGED <<users, codes, session, tz, pc, resp, nextCodeId, lastSet, mail>>

\* --------------------------------------------------------------- register
\* RegisterCheck with the length check made before the existence check.
RegisterCheckWeakFirst(p, email, password) ==
    /\ pc[p] = Idle
    /\ IF Len(password) < MinPasswordLen
       THEN /\ resp' = Fail("register", email, RegisterWeakPassword)
            /\ pc' = pc
       ELSE IF UsersByEmail(email) # {}
       THEN /\ resp' = Fail("register", email, RegisterEmailTaken)
            /\ pc' = pc
       ELSE /\ pc' = [pc EXCEPT ![p] = [op |-> "register", email |-> email,
                                         password |-> password]]
            /\ resp' = resp
    /\ UNCHANGED <<users, codes, session, now, tz, nextCodeId, lastSet, mail>>

\* auth.py 57-62: the existence check and the length check.
RegisterCheck(p, email, password) ==
    /\ pc[p] = Idle
    /\ IF UsersByEmail(email) # {}
       THEN /\ resp' = Fail("register", email, RegisterEmailTaken)
            /\ pc' = pc
       ELSE IF Len(password) < MinPasswordLen
       THEN /\ resp' = Fail("register", email, RegisterWeakPassword)
            /\ pc' = pc
       ELSE /\ pc' = [pc EXCEPT ![p] = [op |-> "register", email |-> email,
                                         password |-> password]]
            /\ resp' = resp
    /\ UNCHANGED <<users, codes, session, now, tz, nextCodeId, lastSet, mail>>

\* users.email without its unique index.
NoUniqueIndex(email) == FALSE

\* The unique index on users.email (models.py 12) rejects the INSERT.
UniqueEmailViolated(email) == UsersByEmail(email) # {}

\* auth.py 64-75: hash, INSERT, commit.
RegisterCommit(p) ==
    /\ pc[p].op = "register"
    /\ pc' = [pc EXCEPT ![p] = Idle]
    /\ IF UniqueEmailViolated(pc[p].email)
       THEN /\ resp' = Unhandled("register", pc[p].email, "IntegrityError")
            /\ UNCHANGED <<users, lastSet>>
       ELSE \E salt \in Salts :
            /\ users' = users \cup {[user_id |-> NewUserId, email |-> pc[p].email,
                                     password |-> hashpw(pc[p].password, salt),
                                     last_login |-> NoTime]}
            /\ resp' = Ok("register", pc[p].email)
            /\ lastSet' = [lastSet EXCEPT ![pc[p].email] = pc[p].password]
    /\ UNCHANGED <<codes, session, now, tz, nextCodeId, mail>>

\* ------------------------------------------------------------------ login
\* auth.py 83-98.
Login(email, password) ==
    /\ IF UsersByEmail(email) = {}
       THEN /\ resp' = Fail("login", email, LoginNoUser)
            /\ UNCHANGED <<users, session>>
       ELSE \E user \in UsersByEmail(email) :
            IF ~checkpw(password, user.password)
            THEN /\ resp' = Fail("login", email, LoginBadPassword)
                 /\ UNCHANGED <<users, session>>
            ELSE /\ session' = [user_id |-> user.user_id, email |-> user.email]
                 /\ users' = (users \ {user}) \cup
                                {[user EXCEPT !.last_login = ToDb(now)]}
                 /\ resp' = Ok("login", email)
    /\ UNCHANGED <<codes, now, tz, pc, nextCodeId, lastSet, mail>>

\* ----------------------------------------------------------------- logout
\* A logout that has nothing to end refused.
LogoutRequiresSession ==
    /\ IF session.user_id = NoId
       THEN resp' = Fail("logout", "", [status |-> 401, detail |-> "login required"])
       ELSE resp' = Ok("logout", "")
    /\ session' = EmptySession
    /\ UNCHANGED <<users, codes, now, tz, pc, nextCodeId, lastSet, mail>>

\* auth.py 104-107.
Logout ==
    /\ session' = EmptySession
    /\ resp' = Ok("logout", "")
    /\ UNCHANGED <<users, codes, now, tz, pc, nextCodeId, lastSet, mail>>

\* --------------------------------------------------------------------- me
MeNoSession == [status |-> 401, detail |-> "login required"]

MeInvalidUser == [status |-> 401, detail |-> "invalid user"]

\* me without request.session.clear() for a binding that does not resolve.
MeKeepsStaleSession ==
    /\ IF session.user_id = NoId
       THEN resp' = Fail("me", "", MeNoSession)
       ELSE IF UsersById(session.user_id) = {}
       THEN resp' = Fail("me", "", MeInvalidUser)
       ELSE \E user \in UsersById(session.user_id) : resp' = Ok("me", user.email)
    /\ UNCHANGED <<users, codes, session, now, tz, pc, nextCodeId, lastSet, mail>>

\* auth.py 113-131.
Me ==
    /\ IF session.user_id = NoId
       THEN /\ resp' = Fail("me", "", MeNoSession)
            /\ session' = session
       ELSE IF UsersById(session.user_id) = {}
       THEN /\ session' = EmptySession
            /\ resp' = Fail("me", "", MeInvalidUser)
       ELSE \E user \in UsersById(session.user_id) :
            /\ resp' = Ok("me", user.email)
            /\ session' = session
    /\ UNCHANGED <<users, codes, now, tz, pc, nextCodeId, lastSet, mail>>

\* -------------------------------------------------------- change_password
ChangeNoSession == [status |-> 401, detail |-> "login required"]

ChangeNoUser == [status |-> 404, detail |-> "user not found"]

ChangeBadCurrent == [status |-> 400, detail |-> "current password mismatch"]

ChangeWeakPassword == [status |-> 400, detail |-> "new password must be 8+ chars"]

\* ChangePasswordCheck with the length of the new password checked before
\* the current password.
ChangePasswordCheckWeakFirst(p, current_password, new_password) ==
    /\ pc[p] = Idle
    /\ IF session.user_id = NoId
       THEN /\ resp' = Fail("change_password", "", ChangeNoSession)
            /\ pc' = pc
       ELSE IF UsersById(session.user_id) = {}
       THEN /\ resp' = Fail("change_password", "", ChangeNoUser)
            /\ pc' = pc
       ELSE \E user \in UsersById(session.user_id) :
            IF Len(new_password) < MinPasswordLen
            THEN /\ resp' = Fail("change_password", user.email,
                                 ChangeWeakPassword)
                 /\ pc' = pc
            ELSE IF ~checkpw(current_password, user.password)
            THEN /\ resp' = Fail("change_password", user.email,
                                 ChangeBadCurrent)
                 /\ pc' = pc
            ELSE /\ pc' = [pc EXCEPT ![p] = [op |-> "change_password",
                                              user_id |-> user.user_id,
                                              email |-> user.email,
                                              password |-> new_password]]
                 /\ resp' = resp
    /\ UNCHANGED <<users, codes, session, now, tz, nextCodeId, lastSet, mail>>

\* auth.py 139-151: the session, the account and the two password checks.
ChangePasswordCheck(p, current_password, new_password) ==
    /\ pc[p] = Idle
    /\ IF session.user_id = NoId
       THEN /\ resp' = Fail("change_password", "", ChangeNoSession)
            /\ pc' = pc
       ELSE IF UsersById(session.user_id) = {}
       THEN /\ resp' = Fail("change_password", "", ChangeNoUser)
            /\ pc' = pc
       ELSE \E user \in UsersById(session.user_id) :
            IF ~checkpw(current_password, user.password)
            THEN /\ resp' = Fail("change_password", user.email,
                                 ChangeBadCurrent)
                 /\ pc' = pc
            ELSE IF Len(new_password) < MinPasswordLen
            THEN /\ resp' = Fail("change_password", user.email,
                                 ChangeWeakPassword)
                 /\ pc' = pc
            ELSE /\ pc' = [pc EXCEPT ![p] = [op |-> "change_password",
                                              user_id |-> user.user_id,
                                              email |-> user.email,
                                              password |-> new_password]]
                 /\ resp' = resp
    /\ UNCHANGED <<users, codes, session, now, tz, nextCodeId, lastSet, mail>>

\* The UPDATE never reaching the store.
SetPasswordLost(user_id, hashed) == users

\* UPDATE users SET password = hashed WHERE user_id = user_id.
SetPassword(user_id, hashed) ==
    {IF u.user_id = user_id THEN [u EXCEPT !.password = hashed] ELSE u : u \in users}

\* A change of password that ends the session it was made on.
ChangePasswordCommitRotates(p) ==
    /\ pc[p].op = "change_password"
    /\ pc' = [pc EXCEPT ![p] = Idle]
    /\ \E salt \in Salts :
          users' = SetPassword(pc[p].user_id, hashpw(pc[p].password, salt))
    /\ resp' = Ok("change_password", pc[p].email)
    /\ lastSet' = [lastSet EXCEPT ![pc[p].email] = pc[p].password]
    /\ session' = EmptySession
    /\ UNCHANGED <<codes, now, tz, nextCodeId, mail>>

\* auth.py 153-157: hash, UPDATE, commit.
ChangePasswordCommit(p) ==
    /\ pc[p].op = "change_password"
    /\ pc' = [pc EXCEPT ![p] = Idle]
    /\ \E salt \in Salts :
          users' = SetPassword(pc[p].user_id, hashpw(pc[p].password, salt))
    /\ resp' = Ok("change_password", pc[p].email)
    /\ lastSet' = [lastSet EXCEPT ![pc[p].email] = pc[p].password]
    /\ UNCHANGED <<codes, session, now, tz, nextCodeId, mail>>

\* ------------------------------------------------- password_reset_request
ResetNoUser == [status |-> 404, detail |-> "email not registered"]

\* The codes issued so far and the requests about to issue one.
IssuedOrPending ==
    (nextCodeId - 1) + Cardinality({q \in Procs : pc[q].op = "password_reset_request"})

\* created_at is store-assigned and unique at the store's resolution
\* (microseconds): no two transactions of the model start at the same instant.
FreshTimestamp ==
    /\ \A c \in codes : c.created_at # now
    /\ \A q \in Procs : pc[q].op = "password_reset_request" => pc[q].began # now

\* auth.py 165-167: the transaction begins with the account query; the
\* store's now() (created_at's server default) is the transaction's start.
PasswordResetRequestCheck(p, email) ==
    /\ pc[p] = Idle
    /\ IssuedOrPending < MaxCodes
    /\ FreshTimestamp
    /\ IF UsersByEmail(email) = {}
       THEN /\ resp' = Fail("password_reset_request", email, ResetNoUser)
            /\ pc' = pc
       ELSE /\ pc' = [pc EXCEPT ![p] = [op |-> "password_reset_request",
                                         email |-> email, began |-> now]]
            /\ resp' = resp
    /\ UNCHANGED <<users, codes, session, now, tz, nextCodeId, lastSet, mail>>

\* The draw made one digit short: str(random.randint(10000, 99999)).
RandomCodesFiveDigits(samples) == {Str(n \div 10) : n \in samples}

\* auth.py 169: str(random.randint(100000, 999999)), for the draws of `samples`.
RandomCodes(samples) == {Str(n) : n \in samples}

\* auth.py 170: datetime.utcnow() + timedelta(minutes=5), a naive datetime.
Expires == now + ExpiryMinutes

\* auth.py 176-181: background_tasks.add_task(send_email_sync, email, subject,
\* body), the body carrying the code; `of` is the code row the mail is about.
MailTask(of, email, code) ==
    [of |-> of, to |-> email, code |-> code, state |-> "scheduled"]

\* The mail sent inside the request, after the commit: a failure of the
\* transport fails the request.
PasswordResetRequestSendsInline(p, code) ==
    /\ pc[p].op = "password_reset_request"
    /\ pc' = [pc EXCEPT ![p] = Idle]
    /\ codes' = codes \cup {[code_id |-> nextCodeId, email |-> pc[p].email,
                             code |-> code, expires_at |-> ToDb(Expires),
                             created_at |-> pc[p].began, issued_at |-> now]}
    /\ \E outcome \in {"sent", "failed"} :
          /\ mail' = mail \cup {[MailTask(nextCodeId, pc[p].email, code)
                                    EXCEPT !.state = outcome]}
          /\ resp' = IF outcome = "sent"
                     THEN Ok("password_reset_request", pc[p].email)
                     ELSE Unhandled("password_reset_request", pc[p].email,
                                    "SMTPException")
    /\ nextCodeId' = nextCodeId + 1
    /\ UNCHANGED <<users, session, now, tz, lastSet>>

\* auth.py 169-183: draw the code, INSERT, commit, schedule the mail, answer.
PasswordResetRequestCommit(p, code) ==
    /\ pc[p].op = "password_reset_request"
    /\ pc' = [pc EXCEPT ![p] = Idle]
    /\ codes' = codes \cup {[code_id |-> nextCodeId, email |-> pc[p].email,
                             code |-> code, expires_at |-> ToDb(Expires),
                             created_at |-> pc[p].began, issued_at |-> now]}
    /\ mail' = mail \cup {MailTask(nextCodeId, pc[p].email, code)}
    /\ resp' = Ok("password_reset_request", pc[p].email)
    /\ nextCodeId' = nextCodeId + 1
    /\ UNCHANGED <<users, session, now, tz, lastSet>>

\* ---------------------------------------------------------- mail delivery
\* What a run of send_email_sync can end in: the mail handed to the
\* transport, or an exception raised inside the task.
MailOutcomes == {"sent", "failed"}

\* The scheduled task runs after its request was answered; whatever it ends
\* in stays inside the task.
Deliver(task, outcome) ==
    /\ task \in mail
    /\ task.state = "scheduled"
    /\ mail' = (mail \ {task}) \cup {[task EXCEPT !.state = outcome]}
    /\ UNCHANGED <<users, codes, session, now, tz, pc, resp, nextCodeId, lastSet>>

\* --------------------------------------------- password_reset_verify_code
VerifyInvalidCode == [status |-> 400, detail |-> "invalid code"]

VerifyCodeExpired == [status |-> 400, detail |-> "code expired"]

\* auth.py 198: record.expires_at < datetime.now(timezone.utc).
IsExpired(record) == record.expires_at < now

\* A verify-code that consumes the record it accepted.
VerifyConsuming(email, code) ==
    /\ IF CodesByEmailCode(email, code) = {}
       THEN /\ resp' = [Fail("password_reset_verify_code", email, VerifyInvalidCode)
                           EXCEPT !.code = code]
            /\ codes' = codes
       ELSE \E record \in Latest(CodesByEmailCode(email, code)) :
            IF IsExpired(record)
            THEN /\ resp' = [Fail("password_reset_verify_code", email, VerifyCodeExpired)
                                EXCEPT !.code = code]
                 /\ codes' = codes
            ELSE /\ resp' = [Ok("password_reset_verify_code", email) EXCEPT !.code = code]
                 /\ codes' = codes \ {record}
    /\ UNCHANGED <<users, session, now, tz, pc, nextCodeId, lastSet, mail>>

\* auth.py 187-201.
PasswordResetVerifyCode(email, code) ==
    /\ IF CodesByEmailCode(email, code) = {}
       THEN resp' = [Fail("password_reset_verify_code", email, VerifyInvalidCode)
                        EXCEPT !.code = code]
       ELSE \E record \in Latest(CodesByEmailCode(email, code)) :
            IF IsExpired(record)
            THEN resp' = [Fail("password_reset_verify_code", email, VerifyCodeExpired)
                             EXCEPT !.code = code]
            ELSE resp' = [Ok("password_reset_verify_code", email) EXCEPT !.code = code]
    /\ UNCHANGED <<users, codes, session, now, tz, pc, nextCodeId, lastSet, mail>>

\* ------------------------------------------------- password_reset_confirm
ConfirmNoUser == [status |-> 404, detail |-> "user not found"]

ConfirmWeakPassword == [status |-> 400, detail |-> "password must be 8+ chars"]

\* What the first query of the handler yields: a row's code_id, or NoId for None.
LatestCodeIds(email) ==
    IF CodesByEmail(email) = {} THEN {NoId}
    ELSE {c.code_id : c \in Latest(CodesByEmail(email))}

\* auth.py 208-220: the latest code of the email, the account, the checks.
PasswordResetConfirmCheck(p, email, new_password) ==
    /\ pc[p] = Idle
    /\ IF UsersByEmail(email) = {}
       THEN /\ resp' = Fail("password_reset_confirm", email, ConfirmNoUser)
            /\ pc' = pc
       ELSE IF Len(new_password) < MinPasswordLen
       THEN /\ resp' = Fail("password_reset_confirm", email,
                            ConfirmWeakPassword)
            /\ pc' = pc
       ELSE \E record \in LatestCodeIds(email), user \in UsersByEmail(email) :
            /\ pc' = [pc EXCEPT ![p] = [op |-> "password_reset_confirm",
                                         email |-> email, user_id |-> user.user_id,
                                         password |-> new_password,
                                         record |-> record]]
            /\ resp' = resp
    /\ UNCHANGED <<users, codes, session, now, tz, nextCodeId, lastSet, mail>>

\* auth.py 225: db.delete(record) raises UnmappedInstanceError for None.
DeleteRaises(record) == record = NoId

\* A confirm that deletes every reset code of the email, not the one selected.
PasswordResetConfirmDeletesAll(p) ==
    /\ pc[p].op = "password_reset_confirm"
    /\ pc' = [pc EXCEPT ![p] = Idle]
    /\ IF DeleteRaises(pc[p].record)
       THEN /\ resp' = Unhandled("password_reset_confirm", pc[p].email, "UnmappedInstanceError")
            /\ UNCHANGED <<users, codes, lastSet>>
       ELSE /\ \E salt \in Salts :
                  users' = SetPassword(pc[p].user_id, hashpw(pc[p].password, salt))
            /\ codes' = {c \in codes : c.email # pc[p].email}
            /\ resp' = Ok("password_reset_confirm", pc[p].email)
            /\ lastSet' = [lastSet EXCEPT ![pc[p].email] = pc[p].password]
    /\ UNCHANGED <<session, now, tz, nextCodeId, mail>>

\* A confirm that commits the password before it deletes the record.
PasswordResetConfirmCommitsPasswordFirst(p) ==
    /\ pc[p].op = "password_reset_confirm"
    /\ pc' = [pc EXCEPT ![p] = Idle]
    /\ \E salt \in Salts :
          users' = SetPassword(pc[p].user_id, hashpw(pc[p].password, salt))
    /\ lastSet' = [lastSet EXCEPT ![pc[p].email] = pc[p].password]
    /\ IF DeleteRaises(pc[p].record)
       THEN /\ resp' = Unhandled("password_reset_confirm", pc[p].email, "UnmappedInstanceError")
            /\ codes' = codes
       ELSE /\ codes' = {c \in codes : c.code_id # pc[p].record}
            /\ resp' = Ok("password_reset_confirm", pc[p].email)
    /\ UNCHANGED <<session, now, tz, nextCodeId, mail>>

\* A confirm that ends the session bound to the account it resets.
PasswordResetConfirmEndsSession(p) ==
    /\ pc[p].op = "password_reset_confirm"
    /\ pc' = [pc EXCEPT ![p] = Idle]
    /\ IF DeleteRaises(pc[p].record)
       THEN /\ resp' = Unhandled("password_reset_confirm", pc[p].email, "UnmappedInstanceError")
            /\ UNCHANGED <<users, codes, lastSet, session>>
       ELSE /\ \E salt \in Salts :
                  users' = SetPassword(pc[p].user_id, hashpw(pc[p].password, salt))
            /\ codes' = {c \in codes : c.code_id # pc[p].record}
            /\ resp' = Ok("password_reset_confirm", pc[p].email)
            /\ lastSet' = [lastSet EXCEPT ![pc[p].email] = pc[p].password]
            /\ session' = IF session.user_id = pc[p].user_id
                          THEN EmptySession ELSE session
    /\ UNCHANGED <<now, tz, nextCodeId, mail>>

\* auth.py 222-228: hash, set the password, delete the record, commit.  The
\* DELETE of a row another transaction already removed matches no row, which
\* the ORM reports as a warning only.
PasswordResetConfirmCommit(p) ==
    /\ pc[p].op = "password_reset_confirm"
    /\ pc' = [pc EXCEPT ![p] = Idle]
    /\ IF DeleteRaises(pc[p].record)
       THEN /\ resp' = Unhandled("password_reset_confirm", pc[p].email, "UnmappedInstanceError")
            /\ UNCHANGED <<users, codes, lastSet>>
       ELSE /\ \E salt \in Salts :
                  users' = SetPassword(pc[p].user_id, hashpw(pc[p].password, salt))
            /\ codes' = {c \in codes : c.code_id # pc[p].record}
            /\ resp' = Ok("password_reset_confirm", pc[p].email)
            /\ lastSet' = [lastSet EXCEPT ![pc[p].email] = pc[p].password]
    /\ UNCHANGED <<session, now, tz, nextCodeId, mail>>

\* The handler ended by a failure before db.commit() returned (the store
\* unreachable, the worker stopped): get_db closes the session, nothing of
\* the transaction is kept, and the client gets an error.
PasswordResetConfirmFails(p) ==
    /\ pc[p].op = "password_reset_confirm"
    /\ pc' = [pc EXCEPT ![p] = Idle]
    /\ resp' = Unhandled("password_reset_confirm", pc[p].email, "OperationalError")
    /\ UNCHANGED <<users, codes, session, now, tz, nextCodeId, lastSet, mail>>

\* ---------------------------------------------------------- the store
\* No handler deletes an account; a row of users leaves the store only by
\* other hands (its administration), and a session then outlives its account.
AccountRemoved(user) ==
    /\ user \in users
    /\ users' = users \ {user}
    /\ UNCHANGED <<codes, session, now, tz, pc, resp, nextCodeId, lastSet, mail>>

\* ------------------------------------------------------------------- next
VerifyInputs == RandomCodes(CodeSamples) \cup {<<0, 0, 0, 0, 0, 0>>}

\* Requests of workers W with emails E and passwords PW.
Register(W, E, PW) ==
    \/ \E p \in W, email \in E, password \in PW : RegisterCheck(p, email, password)
    \/ \E p \in W : RegisterCommit(p)

Sessions(E, PW) ==
    \/ \E email \in E, password \in PW : Login(email, password)
    \/ Logout

ChangePassword(W, PW) ==
    \/ \E p \in W, current_password \in PW, new_password \in PW :
          ChangePasswordCheck(p, current_password, new_password)
    \/ \E p \in W : ChangePasswordCommit(p)

PasswordResetRequest(W, E, C) ==
    \/ \E p \in W, email \in E : PasswordResetRequestCheck(p, email)
    \/ \E p \in W, code \in RandomCodes(C) : PasswordResetRequestCommit(p, code)

PasswordResetConfirm(W, E, PW) ==
    \/ \E p \in W, email \in E, new_password \in PW :
          PasswordResetConfirmCheck(p, email, new_password)
    \/ \E p \in W : PasswordResetConfirmCommit(p)

Verify(E) == \E email \in E, code \in VerifyInputs : PasswordResetVerifyCode(email, code)

OneWorker == {"w1"}

FirstPassword == "password1"

\* No request is being handled.
Quiet == \A p \in Procs : pc[p] = Idle

\* The store after register(email, FirstPassword) succeeded for each email of
\* `emails`, "a@x.com" first.
Registered(emails) ==
    {[user_id |-> IF e = "a@x.com" THEN 1 ELSE Cardinality(emails),
      email |-> e, password |-> hashpw(FirstPassword, "s1"), last_login |-> NoTime]
       : e \in emails}

InitRegistered ==
    /\ users \in {Registered({"a@x.com"}), Registered(Emails)}
    /\ codes = {}
    /\ session = EmptySession
    /\ now = 0
    /\ tz \in TzOffsets
    /\ pc = [p \in Procs |-> Idle]
    /\ resp = Response("none", "", 0, "")
    /\ nextCodeId = 1
    /\ lastSet = [e \in Emails |->
                    IF \E u \in users : u.email = e THEN FirstPassword ELSE ""]
    /\ mail = {}

\* Concurrent registrations and logins.
NextRegister == Register(Procs, Emails, Passwords) \/ Sessions(Emails, Passwords)

SpecRegister == Init /\ [][NextRegister]_vars

\* Every operation that sets or checks a password, one request at a time.
NextAccounts ==
    \/ Register(OneWorker, Emails, Passwords)
    \/ Quiet /\ Sessions(Emails, Passwords)
    \/ ChangePassword(OneWorker, Passwords)
    \/ PasswordResetRequest(OneWorker, Emails, {LowCode})
    \/ PasswordResetConfirm(OneWorker, Emails, Passwords)

SpecAccounts == Init /\ [][NextAccounts]_vars

\* Issuing and verifying reset codes, concurrently and as time passes.
NextVerify ==
    \/ Tick \/ PasswordResetRequest(Procs, Emails, CodeSamples) \/ Verify(Emails)

SpecVerify == InitRegistered /\ [][NextVerify]_vars

\* Resetting a password with no verify-code call at all, as time passes.
NextConfirm ==
    \/ Tick
    \/ PasswordResetRequest(OneWorker, {"a@x.com"}, {LowCode})
    \/ PasswordResetConfirm(OneWorker, Emails, Passwords)
    \/ Quiet /\ \E password \in Passwords : Login("a@x.com", password)

SpecConfirm == InitRegistered /\ [][NextConfirm]_vars

\* Issuing, verifying and consuming reset codes, one request at a time.
NextReset ==
    \/ Tick
    \/ PasswordResetRequest(OneWorker, Emails, CodeSamples)
    \/ Quiet /\ Verify(Emails)
    \/ PasswordResetConfirm(OneWorker, Emails, {"newpass1"})

SpecReset == InitRegistered /\ [][NextReset]_vars

\* Issuing reset codes, concurrently and as time passes, and delivering them.
Delivery == \E task \in mail, outcome \in MailOutcomes : Deliver(task, outcome)

NextMail ==
    \/ Tick \/ PasswordResetRequest(Procs, Emails, CodeSamples) \/ Delivery

SpecMail == InitRegistered /\ [][NextMail]_vars

\* One client and its session, one request at a time, over accounts that may
\* leave the store.
NextSession ==
    \/ Quiet /\ Sessions(Emails, Passwords)
    \/ Quiet /\ Me
    \/ ChangePassword(OneWorker, Passwords)
    \/ PasswordResetRequest(OneWorker, {"a@x.com"}, {LowCode})
    \/ Quiet /\ \E user \in users : AccountRemoved(user)

SpecSession == InitRegistered /\ [][NextSession]_vars

\* Confirms for one email racing each other and the reset requests, with
\* handlers that may fail, while the other email is reset too.
NextRace ==
    \/ Tick
    \/ PasswordResetRequest(OneWorker, Emails, {LowCode})
    \/ PasswordResetConfirm(Procs, {"a@x.com"}, {"newpass1", "short67"})
    \/ PasswordResetConfirm(OneWorker, {"b@x.com"}, {"newpass1"})
    \/ \E p \in Procs : PasswordResetConfirmFails(p)
    \/ Quiet /\ PasswordResetVerifyCode("a@x.com", Str(LowCode))

SpecRace == InitRegistered /\ [][NextRace]_vars

\* A client with a session, which knows the first password only, while the
\* passwords are reset from elsewhere.
NextResetSession ==
    \/ \E email \in Emails, password \in {FirstPassword, "short67"} :
          Login(email, password)
    \/ Logout
    \/ Me
    \/ PasswordResetRequest(OneWorker, Emails, {LowCode})
    \/ PasswordResetConfirm(OneWorker, Emails, {"newpass1"})
    \/ Quiet /\ \E user \in users : AccountRemoved(user)

SpecResetSession == InitRegistered /\ [][NextResetSession]_vars

\* ----------------------------------------------------------------- claims
HasAccount(email) == \E u \in users : u.email = email

RegisterStep(p, email, password) ==
    \/ RegisterCheck(p, email, password)
    \/ RegisterCommit(p) /\ pc[p].email = email /\ pc[p].password = password

\* C1: however two or more concurrent register requests with the same email
\* interleave their existence checks and their commits, no state holds two
\* accounts with one email, a register answers success only when no account
\* had the email and leaves exactly one, and an account once created stays:
\* so at most one of the requests succeeds.
C1_OneAccountPerEmail ==
    /\ [](\A u, v \in users : u.email = v.email => u = v)
    /\ [][\A p \in Procs :
             (RegisterCommit(p) /\ resp'.status = 200) =>
                 /\ ~HasAccount(pc[p].email)
                 /\ Cardinality({u \in users' : u.email = pc[p].email}) = 1]_vars
    /\ [][\A e \in Emails : HasAccount(e) => HasAccount(e)']_vars

\* Two registrations of one email raced: the loser's INSERT was rejected.
C1_Witness ==
    /\ resp.op = "register" /\ resp.status = 500
    /\ Cardinality({u \in users : u.email = resp.email}) = 1

\* C2: a register for an email without an account and a password of 8 or
\* more characters is accepted and its commit creates exactly one account;
\* a register for an email that has an account answers 400 "email already
\* exists" whatever the password is, a short one too; a register that does
\* not answer success leaves the accounts as they were, and no register
\* touches the session.
C2_RegisterOnceThenEmailTaken ==
    [][\A p \in Procs, e \in Emails, pw \in Passwords :
          /\ (RegisterCheck(p, e, pw) /\ HasAccount(e)) =>
                /\ resp'.op = "register" /\ resp'.email = e
                /\ resp'.status = 400 /\ resp'.detail = "email already exists"
                /\ pc'[p] = Idle
          /\ (RegisterCheck(p, e, pw) /\ ~HasAccount(e) /\ Len(pw) >= 8) =>
                /\ pc'[p] = [op |-> "register", email |-> e, password |-> pw]
                /\ resp' = resp
          /\ (RegisterCommit(p) /\ pc[p].email = e /\ ~HasAccount(e)) =>
                /\ resp'.op = "register" /\ resp'.status = 200
                /\ \E u \in users' : /\ u \notin users
                                     /\ users' = users \cup {u}
                                     /\ u.email = e
          /\ (RegisterStep(p, e, pw) /\ users' # users) =>
                (resp'.op = "register" /\ resp'.status = 200)
          /\ RegisterStep(p, e, pw) => session' = session]_vars

\* A register was refused as email-taken while a session was bound.
C2_Witness ==
    /\ resp.op = "register" /\ resp.detail = "email already exists"
    /\ HasAccount(resp.email)
    /\ session.user_id # NoId

\* C3: login(email, p) answers success exactly when an account has the email
\* and p is the password that the last successful register, change_password
\* or password_reset_confirm gave it (so the password before a change no
\* longer logs in and the new one does); a success binds the session to the
\* account's id and email and sets its last_login; any other login answers 401.
C3_LoginIffLatestPassword ==
    [][\A e \in Emails, pw \in Passwords :
          Login(e, pw) =>
             /\ resp'.op = "login"
             /\ (resp'.status = 200) <=> (HasAccount(e) /\ lastSet[e] = pw)
             /\ (resp'.status = 200) =>
                   \E u \in users' :
                      /\ u.email = e
                      /\ session' = [user_id |-> u.user_id, email |-> e]
                      /\ u.last_login # NoTime
             /\ (resp'.status # 200) => (resp'.status = 401)]_vars

\* A login succeeded with the password a reset gave the account, the only
\* code issued having been consumed by that reset.
C3_Witness ==
    /\ resp.op = "login" /\ resp.status = 200
    /\ lastSet[resp.email] = "newpass1"
    /\ nextCodeId = 2 /\ codes = {}

\* C4: a login that must fail, for an unregistered email or for a wrong
\* password, answers with one and the same status and message (the answer
\* given for an unregistered email), and leaves the session binding and
\* every account, its last_login too, unchanged.
C4_LoginFailuresAlike ==
    [][\A e \in Emails, pw \in Passwords :
          (Login(e, pw) /\ ~(HasAccount(e) /\ lastSet[e] = pw)) =>
             /\ resp'.status = 401
             /\ [status |-> resp'.status, detail |-> resp'.detail] = LoginNoUser
             /\ session' = session
             /\ users' = users]_vars

\* A wrong password was refused for the account the session is bound to.
C4_Witness ==
    /\ resp.op = "login" /\ resp.status = 401
    /\ \E u \in users : /\ u.email = resp.email
                        /\ u.last_login # NoTime
                        /\ session = [user_id |-> u.user_id, email |-> u.email]

Matching(email, code) == {c \in codes : c.email = email /\ c.code = code}

NewestMatching(email, code) ==
    {c \in Matching(email, code) :
        \A d \in Matching(email, code) : d.created_at <= c.created_at}

\* The password verifies against the hash the table holds for the email.
Verifies(table, password, email) ==
    \E u \in table : u.email = email /\ checkpw(password, u.password)

\* C5 (as claimed): a password_reset_confirm that passed its account and
\* length checks answers success and replaces the stored password, so that
\* the new password verifies and no other does, whatever reset codes exist.
C5_ConfirmNeedsNoCode ==
    [][\A p \in Procs :
          PasswordResetConfirmCommit(p) =>
             /\ resp'.op = "password_reset_confirm" /\ resp'.status = 200
             /\ \A pw \in Passwords :
                   Verifies(users', pw, pc[p].email) <=> (pw = pc[p].password)]_vars

\* C6 (as claimed): a password_reset_confirm for an existing account and a
\* password of 8 or more characters, made while no reset code exists for the
\* email, answers success, persists the new password and deletes nothing.
C6_ConfirmWithoutRecord ==
    [][\A p \in Procs :
          (PasswordResetConfirmCommit(p) /\ ~\E c \in codes : c.email = pc[p].email) =>
             /\ resp'.status = 200
             /\ Verifies(users', pc[p].password, pc[p].email)
             /\ codes' = codes]_vars

\* What the code does in place of C5 and C6: the confirm succeeds, replaces the
\* password and deletes the record it selected exactly when it selected one,
\* expired or not, verified or not; with none to select it answers 500 and
\* changes nothing.
ConfirmSucceedsIffRecordSelected ==
    [][\A p \in Procs :
          PasswordResetConfirmCommit(p) =>
             IF pc[p].record # NoId
             THEN /\ resp'.status = 200
                  /\ \A pw \in Passwords :
                        Verifies(users', pw, pc[p].email) <=> (pw = pc[p].password)
                  /\ codes' = {c \in codes : c.code_id # pc[p].record}
             ELSE /\ resp'.status = 500
                  /\ users' = users /\ codes' = codes]_vars

\* What the code does in place of C7: the newest matching record decides by
\* its stored expiry, which is its issue time plus 5 minutes minus the zone
\* offset of the store session.
ExpiredIffStoredExpiryPassed ==
    [][\A e \in Emails, code \in VerifyInputs :
          PasswordResetVerifyCode(e, code) =>
             \A r \in NewestMatching(e, code) :
                /\ r.expires_at = r.issued_at + ExpiryMinutes - tz
                /\ (resp'.status = 400 /\ resp'.detail = "code expired")
                      <=> (r.expires_at < now)
                /\ (resp'.status = 200) <=> (r.expires_at >= now)]_vars

\* C7 (as claimed): verify-code on a matching code answers "code expired"
\* whenever 5 minutes have passed since the newest matching record was
\* issued, and answers success only when they have not.
C7_ExpiresFiveMinutesAfterIssue ==
    [][\A e \in Emails, code \in VerifyInputs :
          PasswordResetVerifyCode(e, code) =>
             \A r \in NewestMatching(e, code) :
                /\ (r.issued_at + ExpiryMinutes < now) =>
                      (resp'.status = 400 /\ resp'.detail = "code expired")
                /\ (resp'.status = 200) => (r.issued_at + ExpiryMinutes >= now)]_vars

\* C8 (as claimed): verify-code succeeds for every issued code of the email
\* whose own expiry has not passed, whatever other codes were issued.
C8_AnyUnexpiredCodeVerifies ==
    [][\A e \in Emails, code \in VerifyInputs :
          (PasswordResetVerifyCode(e, code)
             /\ \E r \in Matching(e, code) : r.expires_at >= now) =>
          resp'.status = 200]_vars

\* C8 (amended): verify-code on a matching code succeeds exactly when the
\* expiry of the most recently created record with that email and that code
\* has not passed; records of the email with another code, older or newer,
\* do not count.  Two codes that differ are each decided by their own expiry.
C8_NewestMatchingDecides ==
    [][\A e \in Emails, code \in VerifyInputs :
          (PasswordResetVerifyCode(e, code) /\ Matching(e, code) # {}) =>
             \A r \in NewestMatching(e, code) :
                (resp'.status = 200) <=> (r.expires_at >= now)]_vars

\* The older of two differing codes of one email was verified after the
\* newer was issued.
C8_Witness ==
    /\ resp.op = "password_reset_verify_code" /\ resp.status = 200
    /\ \E r, d \in codes :
          /\ r.email = resp.email /\ r.code = resp.code
          /\ d.email = resp.email /\ d.code # resp.code
          /\ d.created_at > r.created_at

\* C9: verify-code, whatever it answers, leaves the reset codes, the accounts
\* and the session as they were; after a success the same call would succeed
\* again in the state it leaves.
C9_VerifyChangesNothing ==
    [][\A e \in Emails, code \in VerifyInputs :
          PasswordResetVerifyCode(e, code) =>
             /\ codes' = codes /\ users' = users /\ session' = session
             /\ (resp'.status = 200) =>
                   /\ NewestMatching(e, code)' # {}
                   /\ \A r \in NewestMatching(e, code)' : r.expires_at >= now']_vars

\* A code was verified and its record is still there.
C9_Witness ==
    /\ resp.op = "password_reset_verify_code" /\ resp.status = 200
    /\ \E r \in codes : r.email = resp.email /\ r.code = resp.code

\* C10: verify-code answers 400 "invalid code" exactly when no reset code
\* record has both the email and the code.
C10_InvalidIffNoMatch ==
    [][\A e \in Emails, code \in VerifyInputs :
          PasswordResetVerifyCode(e, code) =>
             ((resp'.status = 400 /\ resp'.detail = "invalid code")
                 <=> ~\E c \in codes : c.email = e /\ c.code = code)]_vars

\* A code was refused as invalid for an email whose own code a confirm had
\* deleted, while the other email still holds a record with that very code.
C10_Witness ==
    /\ resp.op = "password_reset_verify_code" /\ resp.detail = "invalid code"
    /\ nextCodeId = 3 /\ Cardinality(codes) = 1
    /\ \E c \in codes : c.email # resp.email /\ c.code = resp.code

\* C11 (as claimed): password_reset_request for an email without an account
\* answers 404, adds no reset code and schedules no mail; for an email with an
\* account it adds exactly one reset code, for that email, whose expiry is the
\* instant of issuance plus 5 minutes, and leaves every reset code that
\* existed and every account as they were.
C11_RequestAddsOneCode ==
    [][\A p \in Procs :
          /\ \A e \in Emails :
                (PasswordResetRequestCheck(p, e) /\ ~HasAccount(e)) =>
                   /\ resp'.op = "password_reset_request" /\ resp'.status = 404
                   /\ pc'[p] = Idle
                   /\ codes' = codes /\ mail' = mail /\ users' = users
          /\ \A e \in Emails :
                (PasswordResetRequestCheck(p, e) /\ HasAccount(e)) =>
                   /\ pc'[p].op = "password_reset_request" /\ pc'[p].email = e
                   /\ codes' = codes /\ mail' = mail /\ users' = users
          /\ \A code \in RandomCodes(CodeSamples) :
                PasswordResetRequestCommit(p, code) =>
                   /\ resp'.status = 200
                   /\ users' = users
                   /\ \E c \in codes' :
                         /\ c \notin codes
                         /\ codes' = codes \cup {c}
                         /\ c.email = pc[p].email
                         /\ c.expires_at = now + ExpiryMinutes]_vars

\* What the code does in place of C11: all of it, but for the stored expiry,
\* which is the instant of issuance plus 5 minutes minus the zone offset of
\* the store session.
RequestAddsOneCodeStoredExpiry ==
    [][\A p \in Procs :
          /\ \A e \in Emails :
                (PasswordResetRequestCheck(p, e) /\ ~HasAccount(e)) =>
                   /\ resp'.op = "password_reset_request" /\ resp'.status = 404
                   /\ pc'[p] = Idle
                   /\ codes' = codes /\ mail' = mail /\ users' = users
          /\ \A e \in Emails :
                (PasswordResetRequestCheck(p, e) /\ HasAccount(e)) =>
                   /\ pc'[p].op = "password_reset_request" /\ pc'[p].email = e
                   /\ codes' = codes /\ mail' = mail /\ users' = users
          /\ \A code \in RandomCodes(CodeSamples) :
                PasswordResetRequestCommit(p, code) =>
                   /\ resp'.status = 200
                   /\ users' = users
                   /\ \E c \in codes' :
                         /\ c \notin codes
                         /\ codes' = codes \cup {c}
                         /\ c.email = pc[p].email
                         /\ c.expires_at = now + ExpiryMinutes - tz]_vars

\* C16: the step of password_reset_request that schedules the delivery task
\* is the one that has committed the reset code and answers success, the task
\* being for that very record (nothing is scheduled before the commit); no
\* task has run before its request was answered; and a run of the task,
\* whether it ends in a sent mail or in a failure, changes only the task:
\* the reset codes, the accounts, the session and the response stay.
C16_DeliveryDecoupled ==
    /\ [](\A m \in mail : m.of < nextCodeId)
    /\ [][\A p \in Procs, code \in RandomCodes(CodeSamples) :
             PasswordResetRequestCommit(p, code) =>
                /\ resp'.op = "password_reset_request" /\ resp'.status = 200
                /\ \E c \in codes' \ codes, m \in mail' \ mail :
                      /\ mail' = mail \cup {m}
                      /\ m.of = c.code_id /\ m.to = c.email /\ m.code = c.code
                      /\ m.state = "scheduled"]_vars
    /\ [][mail' # mail =>
             \/ \E p \in Procs : pc[p].op = "password_reset_request" /\ pc'[p] = Idle
             \/ codes' = codes /\ users' = users /\ resp' = resp
                  /\ session' = session /\ pc' = pc]_vars
    /\ [][\A m \in mail, outcome \in MailOutcomes :
             Deliver(m, outcome) =>
                /\ codes' = codes /\ users' = users /\ resp' = resp
                /\ session' = session]_vars

\* The delivery of the code of the last request failed: the request's success
\* still stands as the response and the record is still stored, while the
\* task of an earlier request has not run at all.
C16_Witness ==
    /\ resp.op = "password_reset_request" /\ resp.status = 200
    /\ \E m \in mail : /\ m.state = "failed" /\ m.of = nextCodeId - 1
                        /\ m.to = resp.email
                        /\ \E c \in codes : c.code_id = m.of /\ c.code = m.code
    /\ \E m \in mail : m.state = "scheduled"

\* The number a string of decimal digits writes.
RECURSIVE Val(_)
Val(digits) ==
    IF digits = <<>> THEN 0
    ELSE Val(SubSeq(digits, 1, Len(digits) - 1)) * 10 + digits[Len(digits)]

SixDigits(code) == Len(code) = 6 /\ \A i \in 1..6 : code[i] \in 0..9

\* The string is str(n) for an n that random.randint(100000, 999999) can return.
CanDraw(code) ==
    /\ LowCode <= Val(code) /\ Val(code) <= HighCode
    /\ RandomCodes({Val(code)}) = {code}

\* "000000", "099999", "100000", "999999".
PaddedSamples ==
    {<<0, 0, 0, 0, 0, 0>>, <<0, 9, 9, 9, 9, 9>>, Str(LowCode), Str(HighCode)}

\* C17 (as claimed): every stored code has exactly 6 decimal digits, and
\* every 6-digit string from "000000" to "999999", those with leading zeros
\* too, is one a request about to draw its code can store.
C17_ZeroPaddedSixDigits ==
    /\ \A c \in codes : SixDigits(c.code)
    /\ \A p \in Procs :
          pc[p].op = "password_reset_request" =>
             \A v \in PaddedSamples : CanDraw(v)

\* C17 (amended): every stored code is the decimal string of an integer from
\* 100000 to 999999: it has exactly 6 decimal digits and the first is not 0;
\* of the 6-digit strings, a request about to draw its code can store those
\* that do not begin with 0 and no other.
C17_SixDigitsNoLeadingZero ==
    /\ \A c \in codes : SixDigits(c.code) /\ c.code[1] # 0 /\ CanDraw(c.code)
    /\ \A p \in Procs :
          pc[p].op = "password_reset_request" =>
             \A v \in PaddedSamples : CanDraw(v) <=> (v[1] # 0)

\* Both ends of the range were issued: "100000" and "999999" are stored.
C17_Witness ==
    /\ \E c \in codes : c.code = Str(LowCode)
    /\ \E c \in codes : c.code = Str(HighCode)

Bound == session.user_id # NoId

\* The account id the session is bound to resolves to an account.
Resolves == \E u \in users : u.user_id = session.user_id

\* C12: logout always answers success, with no session bound too, leaves the
\* session unbound and changes no account and no reset code; on an unbound
\* session current_user answers 401 and leaves it unbound; and an unbound
\* session becomes bound by nothing but a login that answers success.
C12_LogoutEndsSession ==
    /\ [][Logout =>
             /\ resp'.op = "logout" /\ resp'.status = 200
             /\ session' = EmptySession
             /\ users' = users /\ codes' = codes]_vars
    /\ [][(Me /\ ~Bound) =>
             /\ resp'.op = "me" /\ resp'.status = 401
             /\ session' = session]_vars
    /\ [][(~Bound /\ Bound') => (resp'.op = "login" /\ resp'.status = 200)]_vars

\* current_user was refused for want of a session, after a login and a logout,
\* every account still being in the store and a reset code being stored.
C12_Witness ==
    /\ resp.op = "me" /\ resp.detail = "login required"
    /\ ~Bound
    /\ \E u \in users : u.last_login # NoTime
    /\ \A e \in Emails : lastSet[e] # "" => HasAccount(e)
    /\ codes # {}

\* C13: change_password reports the first that applies of: 401 with no session
\* identity, 404 when the bound id resolves to no account, 400 "current
\* password mismatch" when current_password is not the account's password
\* (whatever the new one is, a short one too), 400 "new password must be 8+
\* chars" when the new one is shorter than 8; otherwise it goes on to its
\* commit.  In every case of a failure the accounts and the session are as
\* they were.
C13_ChangePasswordCheckOrder ==
    [][\A p \in Procs, cur \in Passwords, new \in Passwords :
          ChangePasswordCheck(p, cur, new) =>
             LET current == \E u \in users : /\ u.user_id = session.user_id
                                              /\ lastSet[u.email] = cur
                 answer == [status |-> resp'.status, detail |-> resp'.detail]
             IN  /\ users' = users /\ session' = session
                 /\ resp'.op = "change_password" \/ resp' = resp
                 /\ IF ~Bound THEN answer = [status |-> 401, detail |-> "login required"]
                    ELSE IF ~Resolves
                    THEN answer = [status |-> 404, detail |-> "user not found"]
                    ELSE IF ~current
                    THEN answer = [status |-> 400,
                                   detail |-> "current password mismatch"]
                    ELSE IF Len(new) < 8
                    THEN answer = [status |-> 400,
                                   detail |-> "new password must be 8+ chars"]
                    ELSE /\ resp' = resp
                         /\ pc'[p].op = "change_password"
                         /\ pc'[p].password = new]_vars

\* A change of password was refused for its current password on a bound
\* session, the account's password being one a change had set before.
C13_Witness ==
    /\ resp.op = "change_password" /\ resp.detail = "current password mismatch"
    /\ Bound /\ Resolves
    /\ lastSet[session.email] = "newpass1"

\* C14: the commit of change_password answers success and leaves the session
\* as it was, bound to the id and the email of the account whose password it
\* set, that account being in the store; and current_user on a bound session
\* whose id resolves answers success with that account and keeps the session.
C14_ChangeKeepsSession ==
    /\ [][\A p \in Procs :
             ChangePasswordCommit(p) =>
                /\ resp'.op = "change_password" /\ resp'.status = 200
                /\ session' = session
                /\ session'.user_id = pc[p].user_id /\ session'.email = pc[p].email
                /\ \E u \in users' : /\ u.user_id = session'.user_id
                                      /\ u.email = session'.email
                                      /\ checkpw(pc[p].password, u.password)]_vars
    /\ [][(Me /\ Bound /\ Resolves) =>
             /\ resp'.op = "me" /\ resp'.status = 200
             /\ resp'.email = session.email
             /\ session' = session]_vars

\* A change of password from "password1" to "newpass1" has just succeeded on
\* a session that is still bound to the account.
C14_Witness ==
    /\ resp.op = "change_password" /\ resp.status = 200
    /\ Bound /\ Resolves
    /\ session.email = resp.email
    /\ lastSet[resp.email] = "newpass1"

\* C15: on a session bound to an id that resolves to no account, current_user
\* answers 401 "invalid user" and unbinds the session, so that the next
\* current_user answers 401 "login required"; change_password on such a
\* session answers 404 and leaves the binding in place.
C15_StaleSession ==
    /\ [][(Me /\ Bound /\ ~Resolves) =>
             /\ resp'.status = 401 /\ resp'.detail = "invalid user"
             /\ session' = EmptySession]_vars
    /\ [][(Me /\ ~Bound) =>
             /\ resp'.status = 401 /\ resp'.detail = "login required"]_vars
    /\ [][\A p \in Procs, cur \in Passwords, new \in Passwords :
             (ChangePasswordCheck(p, cur, new) /\ Bound /\ ~Resolves) =>
                /\ resp'.status = 404
                /\ session' = session
                /\ pc'[p] = Idle]_vars

\* current_user has just refused and unbound a session whose account had left
\* the store.
C15_Witness ==
    /\ resp.op = "me" /\ resp.detail = "invalid user"
    /\ session = EmptySession
    /\ \E e \in Emails : lastSet[e] # "" /\ ~HasAccount(e)

\* The reset codes of the email none of which was created after c.
NewestOf(email) ==
    {c \in codes : /\ c.email = email
                    /\ \A d \in codes : d.email = email => d.created_at <= c.created_at}

\* A confirm refused for its account or its password changes nothing.
ConfirmRefusedChangesNothing ==
    \A p \in Procs, e \in Emails, pw \in {"newpass1", "short67"} :
       PasswordResetConfirmCheck(p, e, pw) =>
          /\ codes' = codes /\ users' = users
          /\ ~HasAccount(e) => (resp'.status = 404 /\ pc'[p] = Idle)
          /\ (HasAccount(e) /\ Len(pw) < 8) => (resp'.status = 400 /\ pc'[p] = Idle)
          /\ (HasAccount(e) /\ Len(pw) >= 8) => pc'[p].op = "password_reset_confirm"

\* C18 (as claimed): a confirm that answers success deletes exactly one reset
\* code, the most recently created one of its email, and leaves every other
\* reset code in place; a confirm refused with 404 or for a short password
\* deletes nothing and changes no password.
C18_ConfirmDeletesNewest ==
    /\ [][\A p \in Procs :
             (PasswordResetConfirmCommit(p) /\ resp'.status = 200) =>
                \E c \in NewestOf(pc[p].email) : codes' = codes \ {c}]_vars
    /\ [][ConfirmRefusedChangesNothing]_vars

\* C18 (amended): a confirm selects the reset code of its email that is the
\* most recently created when it looks; when it answers success it has
\* deleted that record if it was still stored, and no other: at most one
\* record goes, every other record of the email, older or committed since,
\* and every record of other emails stays; the record is exactly one, the
\* most recently created, when it is still stored and still the newest at the
\* commit.  A confirm refused with 404 or for a short password deletes
\* nothing and changes no password.
C18_ConfirmDeletesSelected ==
    /\ [][\A p \in Procs, e \in Emails, pw \in {"newpass1", "short67"} :
             (PasswordResetConfirmCheck(p, e, pw) /\ pc'[p] # Idle) =>
                IF \E c \in codes : c.email = e
                THEN \E c \in NewestOf(e) : pc'[p].record = c.code_id
                ELSE pc'[p].record = NoId]_vars
    /\ [][\A p \in Procs :
             (PasswordResetConfirmCommit(p) /\ resp'.status = 200) =>
                /\ codes' = {c \in codes : c.code_id # pc[p].record}
                /\ Cardinality(codes \ codes') <= 1
                /\ \A c \in codes \ codes' : c.email = pc[p].email
                /\ (\E c \in NewestOf(pc[p].email) : c.code_id = pc[p].record) =>
                      \E c \in NewestOf(pc[p].email) : codes' = codes \ {c}]_vars
    /\ [][ConfirmRefusedChangesNothing]_vars

\* The older of two reset codes of one email was verified after a confirm for
\* the email had deleted the newer, no other email having been reset.
C18_Witness ==
    /\ resp.op = "password_reset_verify_code" /\ resp.status = 200
    /\ \E r \in codes : /\ codes = {r}
                         /\ r.code_id = 1 /\ r.email = resp.email /\ r.code = resp.code
    /\ \E m \in mail : m.of = 2 /\ m.to = resp.email
    /\ lastSet[resp.email] = "newpass1"
    /\ \A e \in Emails : e # resp.email => lastSet[e] # "newpass1"

\* C19: every step in which a confirm ends either has the new password stored
\* and the record the confirm selected gone, both in that one step, or leaves
\* the accounts and the reset codes exactly as they were (a handler that fails
\* for want of a record or before its commit returned); and no step removes a
\* reset code but a confirm that, in the same step, has its new password
\* stored and answers success.
C19_ConfirmCommitsBothOrNeither ==
    /\ [][\A p \in Procs :
             PasswordResetConfirmCommit(p) =>
                IF resp'.status = 200
                THEN /\ Verifies(users', pc[p].password, pc[p].email)
                     /\ \A c \in codes' : c.code_id # pc[p].record
                ELSE users' = users /\ codes' = codes]_vars
    /\ [][\A p \in Procs :
             PasswordResetConfirmFails(p) => (users' = users /\ codes' = codes)]_vars
    /\ [][(codes \ codes' # {}) =>
             \E p \in Procs :
                /\ pc[p].op = "password_reset_confirm" /\ pc'[p] = Idle
                /\ resp'.op = "password_reset_confirm" /\ resp'.status = 200
                /\ \A c \in codes \ codes' : c.code_id = pc[p].record
                /\ Verifies(users', pc[p].password, pc[p].email)]_vars
    /\ [][\A e \in Emails :
             (\E pw \in Passwords : Verifies(users, pw, e) /\ ~Verifies(users', pw, e)) =>
                \E p \in Procs :
                   /\ pc[p].op = "password_reset_confirm" /\ pc[p].email = e
                   /\ \A c \in codes' : c.code_id # pc[p].record]_vars

\* A confirm has just replaced the password and deleted its record while a
\* second confirm for the same email, which selected the same record, is
\* still before its commit.
C19_Witness ==
    /\ resp.op = "password_reset_confirm" /\ resp.status = 200
    /\ lastSet[resp.email] = "newpass1"
    /\ \E p \in Procs :
          /\ pc[p].op = "password_reset_confirm" /\ pc[p].email = resp.email
          /\ pc[p].record # NoId
          /\ \A c \in codes : c.code_id # pc[p].record

\* C20: a confirm, whatever it answers, leaves the session as it was; on a
\* session bound to an account of the store current_user answers success,
\* also when the account's password has been reset since the session was
\* bound; and a bound session changes only by a logout, by a login that
\* answers success, or by current_user finding that its id no longer resolves.
C20_ResetKeepsSession ==
    /\ [][\A p \in Procs : PasswordResetConfirmCommit(p) => session' = session]_vars
    /\ [][(Me /\ Bound /\ Resolves) =>
             /\ resp'.status = 200
             /\ \E u \in users : /\ u.user_id = session.user_id
                                  /\ resp'.email = u.email
             /\ session' = session]_vars
    /\ [][(Bound /\ session' # session) =>
             \/ resp'.op = "logout"
             \/ resp'.op = "login" /\ resp'.status = 200
             \/ resp'.op = "me" /\ ~Resolves /\ session' = EmptySession]_vars

\* current_user succeeded on a session bound with the first password, the
\* account's password having been reset to another since.
C20_Witness ==
    /\ resp.op = "me" /\ resp.status = 200
    /\ Bound /\ session.email = resp.email
    /\ lastSet[resp.email] = "newpass1"
    /\ \E u \in users : /\ u.user_id = session.user_id
                         /\ checkpw("newpass1", u.password)
                         /\ ~checkpw(FirstPassword, u.password)
====
